---- MODULE Spec2Model ----
(***************************************************************************)
(* A model of the planner / executor / summary / verify pipeline of        *)
(* main.py (process_chat) and of the tool registry of tools.py             *)
(* (execute_tool).                                                         *)
(*                                                                         *)
(* Texts are sequences of tokens, JSON values are tagged records, and the  *)
(* Language-Model, the tool backend and the configuration are the inputs.  *)
(* One action models one segment of the async generator process_chat: the  *)
(* code between two points where the coroutine gives the event loop back   *)
(* (a yield, the await of asyncio.sleep) or where it blocks the event-loop *)
(* thread in a synchronous call (client.chat.completions.create,           *)
(* requests.post).                                                         *)
(***************************************************************************)
EXTENDS Naturals, Sequences, FiniteSets, TLC

\* The longest plan the planner stub returns.
MaxPlanLen == 2

\* The requests POSTed to /chat.
Requests == {"r1", "r2"}

----------------------------------------------------------------------------
(* JSON values, as json.loads builds them *)

Arr(items) == [kind |-> "array", v |-> items]
Obj(fields) == [kind |-> "object", v |-> fields]
Str(s) == [kind |-> "string", v |-> s]
\* Python's None, JSON's null.
None == [kind |-> "null", v |-> "None"]
\* A number, by its digits.
Num(digits) == [kind |-> "number", v |-> digits]

\* isinstance(x, list), isinstance(x, dict)
IsList(j) == j.kind = "array"
IsDict(j) == j.kind = "object"

\* dict.get(key, default)
GetOr(d, key, default) == IF key \in DOMAIN d.v THEN d.v[key] ELSE default

\* dict.get(key)
Get(d, key) == GetOr(d, key, None)

\* str(x), as an f-string formats a value
PyStr(j) == IF j.kind \in {"string", "null"} THEN j.v ELSE j.kind

----------------------------------------------------------------------------
(* Texts: sequences of tokens *)

Tok(c) == [ch |-> c, doc |-> None]
\* The three backquotes of a code fence.
FENCE == Tok("fence")
\* The letters json that follow an opening fence.
TAG == Tok("json")
\* White space: a blank or a line break.
WS == Tok(" ")
\* The JSON text of the value j.
Doc(j) == [ch |-> "doc", doc |-> j]
\* Words that are no JSON.
Prose(s) == [ch |-> "prose", doc |-> Str(s)]

Drop(s, n) == SubSeq(s, n + 1, Len(s))

RECURSIVE lstrip(_)
lstrip(s) == IF s # <<>> /\ s[1] = WS THEN lstrip(Tail(s)) ELSE s

RECURSIVE rstrip(_)
rstrip(s) ==
    IF s # <<>> /\ s[Len(s)] = WS THEN rstrip(SubSeq(s, 1, Len(s) - 1)) ELSE s

\* str.strip()
strip(s) == rstrip(lstrip(s))

startswith(s, p) == Len(s) >= Len(p) /\ SubSeq(s, 1, Len(p)) = p
endswith(s, p) == Len(s) >= Len(p) /\ SubSeq(s, Len(s) - Len(p) + 1, Len(s)) = p

clean_json_string(s0) ==
    LET s1 == strip(s0)
        s2 == IF startswith(s1, <<FENCE, TAG>>) THEN Drop(s1, 2) ELSE s1
        s3 == IF startswith(s2, <<FENCE>>) THEN Drop(s2, 1) ELSE s2
        s4 == IF endswith(s3, <<FENCE>>) THEN SubSeq(s3, 1, Len(s3) - 1) ELSE s3
    IN  strip(s4)

\* json.loads: the text of one JSON value, white space around it allowed.
json_parses(s) == Len(strip(s)) = 1 /\ strip(s)[1].ch = "doc"
json_loads(s) == strip(s)[1].doc

----------------------------------------------------------------------------
(* What a call gives back: a text, or an exception *)

Ret(text) == [raised |-> FALSE, text |-> text, exc |-> "none"]
Raise(e) == [raised |-> TRUE, text |-> <<>>, exc |-> e]

----------------------------------------------------------------------------
(* tools.py *)

\* payload = {"q": query, "num": 5} and data.get("organic", [])[:5]
MaxResults == 5

\* The value .env.example ships for SERPER_API_KEY.
placeholder_key == Str("your_serper_api_key_here")

\* if serper_api_key and serper_api_key != "your_serper_api_key_here"
key_configured(serper_api_key) ==
    /\ serper_api_key.kind = "string"
    /\ serper_api_key.v # ""
    /\ serper_api_key # placeholder_key

\* What requests.post and response.json() give: the request times out, fails
\* (no connection, or raise_for_status on a non-success status), or answers
\* with the JSON value data.
Backend(net, data) == [net |-> net, data |-> data]

\* s[:n]
Take(s, n) == SubSeq(s, 1, IF Len(s) < n THEN Len(s) ELSE n)

\* f"标题: {title}\n链接: {link}\n摘要: {snippet}" of one organic item
format_item(item) ==
    [ch |-> "item",
     doc |-> Obj([title |-> Str(PyStr(GetOr(item, "title", Str("")))),
                  link |-> Str(PyStr(GetOr(item, "link", Str("")))),
                  snippet |-> Str(PyStr(GetOr(item, "snippet", Str(""))))])]

\* "\n\n".join(results)
RECURSIVE join(_)
join(results) ==
    IF Len(results) <= 1 THEN results
    ELSE <<results[1], WS, WS>> \o join(Tail(results))

\* f"【知识图谱】\n{kg.get('title', '')}: {kg.get('description', '')}"
format_kg(kg) ==
    <<Prose("knowledgeGraph"),
      Prose(PyStr(GetOr(kg, "title", Str("")))),
      Prose(PyStr(GetOr(kg, "description", Str(""))))>>

no_results == <<Prose("no results found")>>
search_timeout == <<Prose("search timed out")>>
search_failed(e) == <<Prose("Serper search failed"), Prose(e)>>
unknown_tool == <<Prose("Unknown tool")>>

\* The templated result of the mode without a search credential.
mock_results(query) == <<Prose("simulated search results"), Prose(PyStr(query))>>

\* A truthy value: if data.get("knowledgeGraph")
Truthy(j) ==
    CASE j.kind = "null" -> FALSE
      [] j.kind = "string" -> j.v # ""
      [] j.kind = "array" -> j.v # <<>>
      [] j.kind = "object" -> DOMAIN j.v # {}
      [] OTHER -> TRUE

\* Lines 38-55 without the knowledgeGraph lines 50-53.
search_result_no_kg(data) ==
    IF ~IsDict(data) THEN Raise("AttributeError")
    ELSE LET organic == GetOr(data, "organic", Arr(<<>>))
         IN  IF ~IsList(organic) THEN Raise("TypeError")
             ELSE LET items == Take(organic.v, MaxResults)
                  IN  IF \E i \in 1..Len(items) : ~IsDict(items[i])
                        THEN Raise("AttributeError")
                      ELSE IF items # <<>>
                        THEN Ret(join([i \in 1..Len(items) |-> format_item(items[i])]))
                      ELSE Ret(no_results)

\* Lines 38-55: the answer of the backend turned into a result.
search_result(data) ==
    IF ~IsDict(data) THEN Raise("AttributeError")
    ELSE LET organic == GetOr(data, "organic", Arr(<<>>))
         IN  IF ~IsList(organic) THEN Raise("TypeError")
             ELSE LET items == Take(organic.v, MaxResults)
                  IN  IF \E i \in 1..Len(items) : ~IsDict(items[i])
                        THEN Raise("AttributeError")
                      ELSE IF items # <<>>
                        THEN Ret(join([i \in 1..Len(items) |-> format_item(items[i])]))
                      ELSE IF Truthy(Get(data, "knowledgeGraph"))
                        THEN IF IsDict(Get(data, "knowledgeGraph"))
                               THEN Ret(format_kg(Get(data, "knowledgeGraph")))
                               ELSE Raise("AttributeError")
                      ELSE Ret(no_results)

\* Whether execute_tool reaches requests.post: the web_search tool, with
\* arguments that have a .get, and a search credential.
tool_posts(tool_name, arguments, serper_api_key) ==
    /\ tool_name = Str("web_search")
    /\ IsDict(arguments)
    /\ key_configured(serper_api_key)

\* execute_tool with a lookup in place of the last line: a name that is not
\* registered raises.
execute_tool_strict(tool_name, arguments, serper_api_key, backend) ==
    IF tool_name = Str("web_search")
      THEN IF ~IsDict(arguments) THEN Raise("AttributeError")
           ELSE IF key_configured(serper_api_key)
                  THEN CASE backend.net = "timeout" -> Ret(search_timeout)
                         [] backend.net = "error" -> Ret(search_failed("RequestException"))
                         [] OTHER -> search_result(backend.data)
                  ELSE Ret(mock_results(GetOr(arguments, "query", Str(""))))
      ELSE Raise("KeyError")

\* execute_tool(tool_name, arguments), given the environment's SERPER_API_KEY
\* and what the backend does when it is asked.
execute_tool(tool_name, arguments, serper_api_key, backend) ==
    IF tool_name = Str("web_search")
      THEN IF ~IsDict(arguments) THEN Raise("AttributeError")
           ELSE LET query == GetOr(arguments, "query", Str(""))
                IN  IF key_configured(serper_api_key)
                      THEN CASE backend.net = "timeout" -> Ret(search_timeout)
                             [] backend.net = "error" -> Ret(search_failed("RequestException"))
                             [] OTHER -> search_result(backend.data)
                      ELSE Ret(mock_results(query))
      ELSE Ret(unknown_tool)

----------------------------------------------------------------------------
(* main.py: the state of the process and of each request's process_chat *)

VARIABLES
    client,           \* whether DEEPSEEK_API_KEY gave a client (lines 28-36)
    serper_api_key,   \* os.getenv("SERPER_API_KEY")
    pc,               \* where each request's generator stands
    planner_content,  \* the planner's raw output
    plan,             \* the parsed plan, None before
    idx,              \* the position of `for task in plan`, 0 before the loop
    exec_content,     \* the executor's raw output for the current task
    action_data,      \* the action parsed from it, as last assigned
    final_results,    \* the outcomes appended so far
    final_answer,     \* the summary model's draft
    events,           \* the lines the generator has yielded
    calls             \* history: the external calls made, each with what it gave

vars == <<client, serper_api_key, pc, planner_content, plan, idx, exec_content,
          action_data, final_results, final_answer, events, calls>>

\* The generator is inside a synchronous call: the event-loop thread is in it.
BlockedPcs == {"planner_call", "executor_call", "tool_post", "summary_call",
               "verify_call"}

\* process_chat is a coroutine of the one event loop uvicorn.run starts: it
\* runs only while no other coroutine holds the thread.
LoopFree(r) == \A s \in Requests \ {r} : pc[s] \notin BlockedPcs

(* the events, json.dumps({"type": ...}) + "\n" *)
StatusEvent == [type |-> "status", content |-> <<Prose("planning")>>]
PlanEvent(p) == [type |-> "plan", content |-> p]
\* The events with the task's description in the place of its id.
TaskStart_desc(task) == [type |-> "task_start", id |-> Get(task, "task")]
TaskDone_desc(task) == [type |-> "task_done", id |-> Get(task, "task")]

\* task_id = task.get("id"), and the task_start event that carries it
TaskStart(task) == [type |-> "task_start", id |-> Get(task, "id")]
LogEvent(tool_name, args) ==
    [type |-> "log",
     content |-> <<Prose("tool call"), Prose(PyStr(tool_name)), Prose(PyStr(args))>>]
TaskDone(task) == [type |-> "task_done", id |-> Get(task, "id")]
MessageEvent(text) == [type |-> "message", content |-> text]
ErrorEvent(e) == [type |-> "error", content |-> <<Prose(e)>>]

not_configured == "API Key not configured"

(* the entries of final_results *)
\* f"任务 {task_id} 结果: {...}"
result_entry(id, body) == [task_id |-> id, marker |-> "result", body |-> body]
\* f"任务 {task_id} 执行出错: {str(e)}"
error_entry(id, e) == [task_id |-> id, marker |-> "error", body |-> <<Prose(e)>>]

Emit(r, e) == events' = [events EXCEPT ![r] = Append(@, e)]
Goto(r, l) == pc' = [pc EXCEPT ![r] = l]
Record(r, entry) == final_results' = [final_results EXCEPT ![r] = Append(@, entry)]

\* A call starts: the thread stays in it until it returns or raises.
Call(stage, out, text) == [stage |-> stage, out |-> out, text |-> text]
Ended(call, resp) ==
    Call(call.stage, IF resp.raised THEN "raised" ELSE "ok", resp.text)
CallBegin(r, stage) ==
    calls' = [calls EXCEPT ![r] = Append(@, Call(stage, "pending", <<>>))]
CallEnd(r, resp) ==
    calls' = [calls EXCEPT ![r][Len(calls[r])] = Ended(@, resp)]

\* The outer except clause that yields the error event and lets the run go on
\* to the summary.
Fail_resumed(r, e) ==
    /\ Emit(r, ErrorEvent(e))
    /\ Goto(r, IF pc[r] \in {"at_plan", "sleeping", "executor_call"}
                 THEN "sleeping" ELSE "done")

\* The outer except clause without its yield: the exception is swallowed.
Fail_swallowed(r, e) == Goto(r, "done") /\ UNCHANGED events

\* The outer except clause with the request's own name in the error event.
Fail_tagged(r, e) == Emit(r, ErrorEvent(r)) /\ Goto(r, "done")

\* Lines 180-182: except Exception as e: yield the error event; the generator ends.
Fail(r, e) == Emit(r, ErrorEvent(e)) /\ Goto(r, "done")

\* The start without `if not client`: the pipeline runs without a client.
Start_unchecked(r) ==
    /\ pc[r] = "start"
    /\ LoopFree(r)
    /\ Emit(r, StatusEvent) /\ Goto(r, "at_status")
    /\ UNCHANGED <<client, serper_api_key, planner_content, plan, idx,
                   exec_content, action_data, final_results, final_answer, calls>>

\* The start without the yield of line 61: no status event.
Start_no_status(r) ==
    /\ pc[r] = "start"
    /\ LoopFree(r)
    /\ IF ~client
         THEN Emit(r, ErrorEvent(not_configured)) /\ Goto(r, "done")
         ELSE Goto(r, "at_status") /\ UNCHANGED events
    /\ UNCHANGED <<client, serper_api_key, planner_content, plan, idx,
                   exec_content, action_data, final_results, final_answer, calls>>

\* Lines 55-61: no client, the error event and return; else the status event.
Start(r) ==
    /\ pc[r] = "start"
    /\ LoopFree(r)
    /\ IF ~client
         THEN Emit(r, ErrorEvent(not_configured)) /\ Goto(r, "done")
         ELSE Emit(r, StatusEvent) /\ Goto(r, "at_status")
    /\ UNCHANGED <<client, serper_api_key, planner_content, plan, idx,
                   exec_content, action_data, final_results, final_answer, calls>>

\* Lines 63-72: the planner call is made.
PlannerCall(r) ==
    /\ pc[r] = "at_status"
    /\ LoopFree(r)
    /\ CallBegin(r, "planner")
    /\ Goto(r, "planner_call")
    /\ UNCHANGED <<client, serper_api_key, planner_content, plan, idx,
                   exec_content, action_data, final_results, final_answer, events>>

\* The parse without the isinstance check of line 81: any JSON value is a plan.
parse_plan_unchecked(text) ==
    IF json_parses(clean_json_string(text))
      THEN json_loads(clean_json_string(text))
      ELSE None

\* Lines 77-82: the plan parsed from the planner's output; None when the output
\* is no JSON or no list (the except clause of line 83 is taken).
parse_plan(text) ==
    IF json_parses(clean_json_string(text))
         /\ IsList(json_loads(clean_json_string(text)))
      THEN json_loads(clean_json_string(text))
      ELSE None

\* Lines 74-89: the planner answers; the plan event, or the raw output as the
\* message; the call raises, and the outer except clause takes over.
PlannerReturn(r, resp) ==
    /\ pc[r] = "planner_call"
    /\ CallEnd(r, resp)
    /\ IF resp.raised
         THEN Fail(r, resp.exc) /\ UNCHANGED <<planner_content, plan>>
         ELSE /\ planner_content' = [planner_content EXCEPT ![r] = resp.text]
              /\ plan' = [plan EXCEPT ![r] = parse_plan(resp.text)]
              /\ IF parse_plan(resp.text).kind = "null"
                   THEN Emit(r, MessageEvent(resp.text)) /\ Goto(r, "done")
                   ELSE Emit(r, PlanEvent(parse_plan(resp.text))) /\ Goto(r, "at_plan")
    /\ UNCHANGED <<client, serper_api_key, idx, exec_content, action_data, final_results,
                   final_answer>>

\* `task` of the loop, and task_id = task.get("id")
CurTask(r) == plan[r].v[idx[r]]
task_id(r) == Get(CurTask(r), "id")

\* The loop with a check that skips a plan element that is no dict.
LoopHead_skip(r) ==
    /\ pc[r] \in {"at_plan", "sleeping"}
    /\ LoopFree(r)
    /\ IF idx[r] + 1 > Len(plan[r].v)
         THEN /\ CallBegin(r, "summary")
              /\ Goto(r, "summary_call")
              /\ UNCHANGED <<idx, events>>
         ELSE /\ idx' = [idx EXCEPT ![r] = @ + 1]
              /\ IF IsDict(plan[r].v[idx[r] + 1])
                   THEN /\ Emit(r, TaskStart(plan[r].v[idx[r] + 1]))
                        /\ Goto(r, "at_task_start")
                   ELSE Goto(r, "sleeping") /\ UNCHANGED events
              /\ UNCHANGED calls
    /\ UNCHANGED <<client, serper_api_key, planner_content, plan, exec_content,
                   action_data, final_results, final_answer>>

\* Lines 94-99 and 146-159: the loop takes the next task and yields its
\* task_start, or task.get fails on a task that is no dict; after the last task
\* the summary call is made.
LoopHead(r) ==
    /\ pc[r] \in {"at_plan", "sleeping"}
    /\ LoopFree(r)
    /\ IF idx[r] + 1 > Len(plan[r].v)
         THEN /\ CallBegin(r, "summary")
              /\ Goto(r, "summary_call")
              /\ UNCHANGED <<idx, events>>
         ELSE /\ idx' = [idx EXCEPT ![r] = @ + 1]
              /\ IF IsDict(plan[r].v[idx[r] + 1])
                   THEN /\ Emit(r, TaskStart(plan[r].v[idx[r] + 1]))
                        /\ Goto(r, "at_task_start")
                   ELSE Fail(r, "AttributeError")
              /\ UNCHANGED calls
    /\ UNCHANGED <<client, serper_api_key, planner_content, plan, exec_content,
                   action_data, final_results, final_answer>>

\* Lines 101-115: the executor call is made.
ExecutorCall(r) ==
    /\ pc[r] = "at_task_start"
    /\ LoopFree(r)
    /\ CallBegin(r, "executor")
    /\ Goto(r, "executor_call")
    /\ UNCHANGED <<client, serper_api_key, planner_content, plan, idx,
                   exec_content, action_data, final_results, final_answer, events>>

\* json.loads(clean_json_string(exec_content))
parse_action(text) == json_loads(clean_json_string(text))

\* Lines 120-137: what the executor's output resolves to: a tool call, a
\* reply, neither, or the exception the try block raises before any of them.
action_kind(text) ==
    IF ~json_parses(clean_json_string(text)) THEN "JSONDecodeError"
    ELSE IF ~IsDict(parse_action(text)) THEN "AttributeError"
    ELSE IF Get(parse_action(text), "action") = Str("tool_call") THEN "tool_call"
    ELSE IF Get(parse_action(text), "action") = Str("reply") THEN "reply"
    ELSE "neither"

\* The except clause of line 136 with `pass`: a failed task leaves no entry.
outcome_entries_silent(id, text) ==
    IF action_kind(text) = "reply"
      THEN <<result_entry(id, <<Prose(PyStr(Get(parse_action(text), "content")))>>)>>
      ELSE <<>>

\* Lines 133-137: the entries final_results gets from an output that calls no tool.
outcome_entries(id, text) ==
    CASE action_kind(text) = "reply" ->
           <<result_entry(id, <<Prose(PyStr(Get(parse_action(text), "content")))>>)>>
      [] action_kind(text) = "neither" -> <<>>
      [] OTHER -> <<error_entry(id, action_kind(text))>>

\* Lines 117-140: the executor answers. A tool call yields its log event;
\* every other output is settled here and task_done is yielded. The call
\* raises, and the outer except clause takes over.
ExecutorReturn(r, resp) ==
    /\ pc[r] = "executor_call"
    /\ CallEnd(r, resp)
    /\ IF resp.raised
         THEN Fail(r, resp.exc) /\ UNCHANGED <<exec_content, action_data, final_results>>
         ELSE /\ exec_content' = [exec_content EXCEPT ![r] = resp.text]
              /\ action_data' = [action_data EXCEPT ![r] =
                     IF json_parses(clean_json_string(resp.text))
                       THEN parse_action(resp.text) ELSE @]
              /\ IF action_kind(resp.text) = "tool_call"
                   THEN /\ Emit(r, LogEvent(Get(parse_action(resp.text), "tool_name"),
                                            Get(parse_action(resp.text), "arguments")))
                        /\ Goto(r, "at_log")
                        /\ UNCHANGED final_results
                   ELSE /\ final_results' = [final_results EXCEPT ![r] =
                                               @ \o outcome_entries(task_id(r), resp.text)]
                        /\ Emit(r, TaskDone(CurTask(r)))
                        /\ Goto(r, "at_task_done")
    /\ UNCHANGED <<client, serper_api_key, planner_content, plan, idx, final_answer>>

\* The tool's exception recorded as if it were a result.
tool_entry_unmarked(id, res) == result_entry(id, res.text)

\* Lines 130-137: the tool's result as the task's outcome, or the exception it
\* raised as the task's error outcome.
tool_entry(id, res) ==
    IF res.raised THEN error_entry(id, res.exc) ELSE result_entry(id, res.text)

\* The tool called without the arguments of the action.
args_none(r) == None

\* tool_name = action_data.get("tool_name"), args = action_data.get("arguments")
tool_name(r) == Get(action_data[r], "tool_name")
args(r) == Get(action_data[r], "arguments")

\* Lines 130-140 and tools.py 21-36: execute_tool is called. It returns at once
\* (the mock result, the unknown tool, arguments without a .get), or it posts
\* the search request.
ToolInvoke(r) ==
    /\ pc[r] = "at_log"
    /\ LoopFree(r)
    /\ IF tool_posts(tool_name(r), args(r), serper_api_key)
         THEN /\ CallBegin(r, "tool")
              /\ Goto(r, "tool_post")
              /\ UNCHANGED <<final_results, events>>
         ELSE LET res == execute_tool(tool_name(r), args(r), serper_api_key,
                                      Backend("unused", None))
              IN  /\ calls' = [calls EXCEPT ![r] =
                         Append(@, Ended(Call("tool", "pending", <<>>), res))]
                  /\ Record(r, tool_entry(task_id(r), res))
                  /\ Emit(r, TaskDone(CurTask(r)))
                  /\ Goto(r, "at_task_done")
    /\ UNCHANGED <<client, serper_api_key, planner_content, plan, idx,
                   exec_content, action_data, final_answer>>

\* tools.py 36-60 and main.py 131-140: the search request ends.
ToolReturn(r, backend) ==
    /\ pc[r] = "tool_post"
    /\ LET res == execute_tool(tool_name(r), args(r), serper_api_key, backend)
       IN  /\ CallEnd(r, res)
           /\ Record(r, tool_entry(task_id(r), res))
    /\ Emit(r, TaskDone(CurTask(r)))
    /\ Goto(r, "at_task_done")
    /\ UNCHANGED <<client, serper_api_key, planner_content, plan, idx,
                   exec_content, action_data, final_answer>>

\* Line 143: await asyncio.sleep(0.5)
Sleep(r) ==
    /\ pc[r] = "at_task_done"
    /\ LoopFree(r)
    /\ Goto(r, "sleeping")
    /\ UNCHANGED <<client, serper_api_key, planner_content, plan, idx, exec_content,
                   action_data, final_results, final_answer, events, calls>>

\* The summary model's answer yielded as the message, without the verify call.
SummaryReturn_no_verify(r, resp) ==
    /\ pc[r] = "summary_call"
    /\ CallEnd(r, resp)
    /\ IF resp.raised
         THEN Fail(r, resp.exc) /\ UNCHANGED final_answer
         ELSE /\ final_answer' = [final_answer EXCEPT ![r] = resp.text]
              /\ Emit(r, MessageEvent(resp.text))
              /\ Goto(r, "done")
    /\ UNCHANGED <<client, serper_api_key, planner_content, plan, idx,
                   exec_content, action_data, final_results>>

\* Lines 153-169: the summary model answers and the verify call is made; the
\* call raises, and the outer except clause takes over.
SummaryReturn(r, resp) ==
    /\ pc[r] = "summary_call"
    /\ IF resp.raised
         THEN CallEnd(r, resp) /\ Fail(r, resp.exc) /\ UNCHANGED final_answer
         ELSE /\ final_answer' = [final_answer EXCEPT ![r] = resp.text]
              /\ calls' = [calls EXCEPT ![r] =
                     Append([@ EXCEPT ![Len(calls[r])] = Ended(@, resp)],
                            Call("verify", "pending", <<>>))]
              /\ Goto(r, "verify_call")
              /\ UNCHANGED events
    /\ UNCHANGED <<client, serper_api_key, planner_content, plan, idx,
                   exec_content, action_data, final_results>>

\* The last yield with final_answer in the place of verified_answer.
VerifyReturn_draft(r, resp) ==
    /\ pc[r] = "verify_call"
    /\ CallEnd(r, resp)
    /\ IF resp.raised
         THEN Fail(r, resp.exc)
         ELSE Emit(r, MessageEvent(final_answer[r])) /\ Goto(r, "done")
    /\ UNCHANGED <<client, serper_api_key, planner_content, plan, idx,
                   exec_content, action_data, final_results, final_answer>>

\* Lines 170-178: the verify model answers: its output is the message; the
\* call raises, and the outer except clause takes over.
VerifyReturn(r, resp) ==
    /\ pc[r] = "verify_call"
    /\ CallEnd(r, resp)
    /\ IF resp.raised
         THEN Fail(r, resp.exc)
         ELSE Emit(r, MessageEvent(resp.text)) /\ Goto(r, "done")
    /\ UNCHANGED <<client, serper_api_key, planner_content, plan, idx,
                   exec_content, action_data, final_results, final_answer>>

----------------------------------------------------------------------------
(* The inputs: what the Language-Model and the search backend may answer *)

SeqsUpTo(S, n) == UNION {[1..k -> S] : k \in 0..n}

task1 == Obj([id |-> Str("1"), task |-> Str("search the web")])
task2 == Obj([id |-> Str("2"), task |-> Str("answer")])

\* The elements of a plan: two tasks, and an element that is no object.
PlanItems == {task1, task2, Str("search the web")}
Plans == SeqsUpTo(PlanItems, MaxPlanLen)

\* Plans inside code fences or white space.
WrappedPlans ==
    { <<FENCE, TAG, WS, Doc(Arr(<<task1>>)), WS, FENCE>>,
      <<FENCE, WS, Doc(Arr(<<>>)), WS, FENCE, WS>>,
      <<WS, Doc(Arr(<<task2>>)), WS>> }

\* Outputs that are no JSON, or JSON that is no list.
MalformedPlans ==
    { <<>>,
      <<Prose("I can answer directly")>>,
      <<Doc(task1)>>,
      <<Doc(Str("plan"))>>,
      <<Doc(None)>>,
      <<Doc(Num("42"))>>,
      <<Prose("Here is the plan:"), WS, FENCE, TAG, WS, Doc(Arr(<<task1>>)), WS, FENCE>>,
      <<FENCE, Prose("python"), WS, Doc(Arr(<<task1>>)), WS, FENCE>> }

PlannerResponses ==
    {Raise("APIError")}
      \cup {Ret(<<Doc(Arr(p))>>) : p \in Plans}
      \cup {Ret(t) : t \in WrappedPlans \cup MalformedPlans}

reply_action == Obj([action |-> Str("reply"), content |-> Str("It is sunny")])
search_action ==
    Obj([action |-> Str("tool_call"), tool_name |-> Str("web_search"),
         arguments |-> Obj([query |-> Str("Paris")])])
\* A tool call without arguments: action_data.get("arguments") is None.
bare_search_action ==
    Obj([action |-> Str("tool_call"), tool_name |-> Str("web_search")])
calculator_action ==
    Obj([action |-> Str("tool_call"), tool_name |-> Str("calculator"),
         arguments |-> None])
\* A tool that TOOLS does not list, with arguments.
calculator_args_action ==
    Obj([action |-> Str("tool_call"), tool_name |-> Str("calculator"),
         arguments |-> Obj([expression |-> Str("1+1")])])
think_action == Obj([action |-> Str("think")])

\* Outputs that are no JSON.
UnparsableOutputs ==
    { <<Prose("I will search the web")>>,
      <<Prose("Action:"), WS, FENCE, TAG, WS, Doc(reply_action), WS, FENCE>> }

ExecutorResponses ==
    { Raise("APIError"),
      Ret(<<Doc(reply_action)>>),
      Ret(<<FENCE, TAG, WS, Doc(search_action), WS, FENCE>>),
      Ret(<<Doc(bare_search_action)>>),
      Ret(<<Doc(calculator_action)>>),
      Ret(<<Doc(calculator_args_action)>>),
      Ret(<<Doc(think_action)>>),
      Ret(<<Doc(Arr(<<>>))>>) }
      \cup {Ret(t) : t \in UnparsableOutputs}

SummaryResponses == {Raise("APIError"), Ret(<<Prose("draft")>>)}
VerifyResponses ==
    {Raise("APIError"), Ret(<<Prose("draft")>>), Ret(<<Prose("verified")>>)}

organic_item ==
    Obj([title |-> Str("Paris weather"), link |-> Str("https://example.com"),
         snippet |-> Str("sunny")])

knowledge_graph == Obj([title |-> Str("Paris"), description |-> Str("capital of France")])

BackendResponses ==
    { Backend("timeout", None),
      Backend("error", None),
      Backend("ok", Obj([organic |-> Arr(<<organic_item>>)])),
      Backend("ok", Obj([organic |-> Arr(<<>>), knowledgeGraph |-> knowledge_graph])),
      Backend("ok", Obj([organic |-> Arr(<<>>)])),
      Backend("ok", Arr(<<>>)) }

FullWorld ==
    [planner |-> PlannerResponses, executor |-> ExecutorResponses,
     summary |-> SummaryResponses, verify |-> VerifyResponses,
     backend |-> BackendResponses]

----------------------------------------------------------------------------
(* The specification of one request *)

\* One request's generator, driven by the answers of the world W.
Pipeline(r, W) ==
    \/ Start(r)
    \/ PlannerCall(r)
    \/ \E resp \in W.planner : PlannerReturn(r, resp)
    \/ LoopHead(r)
    \/ ExecutorCall(r)
    \/ \E resp \in W.executor : ExecutorReturn(r, resp)
    \/ ToolInvoke(r)
    \/ \E backend \in W.backend : ToolReturn(r, backend)
    \/ Sleep(r)
    \/ \E resp \in W.summary : SummaryReturn(r, resp)
    \/ \E resp \in W.verify : VerifyReturn(r, resp)

\* The state once the process has started and the requests in `arrived` have
\* been POSTed to /chat (lines 28-36 and 184-189).
InitWith(arrived) ==
    /\ client \in BOOLEAN
    /\ serper_api_key \in {None, Str("sk-serper")}
    /\ pc = [r \in Requests |-> IF r \in arrived THEN "start" ELSE "absent"]
    /\ planner_content = [r \in Requests |-> <<>>]
    /\ plan = [r \in Requests |-> None]
    /\ idx = [r \in Requests |-> 0]
    /\ exec_content = [r \in Requests |-> <<>>]
    /\ action_data = [r \in Requests |-> None]
    /\ final_results = [r \in Requests |-> <<>>]
    /\ final_answer = [r \in Requests |-> <<>>]
    /\ events = [r \in Requests |-> <<>>]
    /\ calls = [r \in Requests |-> <<>>]

Init == InitWith({"r1"})

Next == \E r \in Requests : Pipeline(r, FullWorld)

Spec == Init /\ [][Next]_vars

----------------------------------------------------------------------------
(* The specification of two requests served by the same process *)

\* A Language-Model and a backend with few answers.
SmallWorld ==
    [planner |-> {Raise("APIError"), Ret(<<Prose("I can answer directly")>>),
                  Ret(<<Doc(Arr(<<task1>>))>>), Ret(<<Doc(Arr(<<task2, task1>>))>>)},
     executor |-> {Raise("APIError"), Ret(<<Doc(reply_action)>>),
                   Ret(<<Doc(search_action)>>)},
     summary |-> {Ret(<<Prose("draft")>>)},
     verify |-> {Raise("APIError"), Ret(<<Prose("verified")>>)},
     backend |-> {Backend("timeout", None)}]

InitConc == InitWith(Requests)

NextConc == \E r \in Requests : Pipeline(r, SmallWorld)

ConcSpec == InitConc /\ [][NextConc]_vars

----------------------------------------------------------------------------
(* What the claims speak of *)

Last(s) == s[Len(s)]
IsPrefix(s, t) == Len(s) <= Len(t) /\ SubSeq(t, 1, Len(s)) = s

\* The positions of the events of the types T in the stream of r.
Positions(r, T) == {i \in 1..Len(events[r]) : events[r][i].type \in T}
Terminals(r) == Positions(r, {"message", "error"})

\* The calls of r that raised.
Raised(r) == {k \in 1..Len(calls[r]) : calls[r][k].out = "raised"}

----------------------------------------------------------------------------
(* C1: whatever the Language-Model and the tools answer or raise, a finished
   stream holds exactly one terminal event (message or error) and it is the
   last event; a stream that is not finished holds none yet, and its
   generator can always take its next step, so that it does finish. *)
C1_OneTerminalEventLast ==
    \A r \in Requests :
        /\ pc[r] = "done" => Terminals(r) = {Len(events[r])}
        /\ pc[r] \notin {"done", "absent"} =>
               Terminals(r) = {} /\ ENABLED Pipeline(r, FullWorld)

\* A run that an executor call's exception ended, after a first task was done.
C1_Witness ==
    /\ pc["r1"] = "done"
    /\ Last(events["r1"]).type = "error"
    /\ Positions("r1", {"task_done"}) # {}
    /\ \E k \in Raised("r1") : calls["r1"][k].stage = "executor"

----------------------------------------------------------------------------
\* The loop `for task in plan` ran to its end: the summary call was made.
LoopCompleted(r) == \E k \in 1..Len(calls[r]) : calls[r][k].stage = "summary"

\* The planner call returned a text.
PlannerAnswered(r) == calls[r] # <<>> /\ calls[r][1].out = "ok"

(* C2: whenever the task loop runs to completion, final_results holds exactly
   one entry per task of the plan, in plan order, whatever each task's
   executor output was (a tool call, a reply, an unparsable output, an action
   that is neither tool_call nor reply). *)
C2_OneResultPerTask ==
    \A r \in Requests :
        LoopCompleted(r) =>
            /\ Len(final_results[r]) = Len(plan[r].v)
            /\ \A i \in 1..Len(plan[r].v) :
                   final_results[r][i].task_id = Get(plan[r].v[i], "id")

----------------------------------------------------------------------------
(* C3, as claimed: after a malformed planner output (no JSON, or JSON that is
   no list) the whole event sequence is the one message event that carries
   the raw planner text. *)
C3_OnlyTheMessage ==
    \A r \in Requests :
        PlannerAnswered(r) /\ planner_content[r] \in MalformedPlans =>
            events[r] = <<[type |-> "message", content |-> planner_content[r]]>>

(* C3, amended: after a malformed planner output the whole event sequence is
   the planning status event followed by one message event that carries the
   raw planner text, and the generator has ended; no plan, task_start or
   task_done event occurs. *)
C3_StatusThenMessage ==
    \A r \in Requests :
        PlannerAnswered(r) /\ planner_content[r] \in MalformedPlans =>
            /\ pc[r] = "done"
            /\ events[r] = <<[type |-> "status", content |-> <<Prose("planning")>>],
                             [type |-> "message", content |-> planner_content[r]]>>

\* The planner wrote prose before a fenced plan: the fences do not open the text.
C3_Witness ==
    /\ PlannerAnswered("r1")
    /\ planner_content["r1"] =
           <<Prose("Here is the plan:"), WS, FENCE, TAG, WS, Doc(Arr(<<task1>>)), WS, FENCE>>
    /\ pc["r1"] = "done"

----------------------------------------------------------------------------
(* The task events of a stream, and those a plan asks for *)

AllDict(items) == \A i \in 1..Len(items) : IsDict(items[i])

\* The longest prefix of a plan whose elements are all objects.
RECURSIVE DictPrefix(_)
DictPrefix(items) ==
    IF items # <<>> /\ IsDict(items[1])
      THEN <<items[1]>> \o DictPrefix(Tail(items))
      ELSE <<>>

\* start(id1), done(id1), start(id2), done(id2), ...
RECURSIVE ExpectedPairs(_)
ExpectedPairs(items) ==
    IF items = <<>> THEN <<>>
    ELSE <<[type |-> "task_start", id |-> Get(items[1], "id")],
           [type |-> "task_done", id |-> Get(items[1], "id")]>>
           \o ExpectedPairs(Tail(items))

IsTaskEvent(e) == e.type \in {"task_start", "task_done"}
TaskEvents(r) == SelectSeq(events[r], IsTaskEvent)

\* The ids the events of type t carry, in stream order.
IdsOf(r, t) ==
    LET S == SelectSeq(events[r], LAMBDA e : e.type = t)
    IN  [i \in 1..Len(S) |-> S[i].id]
PlanIds(items) == [i \in 1..Len(items) |-> Get(items[i], "id")]

\* The JSON value a text holds.
Payload(text) == text[CHOOSE i \in 1..Len(text) : text[i].ch = "doc"].doc

\* The calls to the Language-Model that raised (a tool's exception is the
\* task's own).
LMRaised(r) == {k \in Raised(r) : calls[r][k].stage # "tool"}

----------------------------------------------------------------------------
(* C4, as claimed: each task of a parsed plan has exactly one task_start and
   one task_done with its id, task_start first, the pairs in plan order and
   not interleaved: the task events of a finished run are start(id1),
   done(id1), ..., start(idn), done(idn). *)
C4_EveryTaskPaired ==
    \A r \in Requests :
        pc[r] = "done" /\ IsList(plan[r]) /\ AllDict(plan[r].v) =>
            TaskEvents(r) = ExpectedPairs(plan[r].v)

(* C4, amended: in every run the task events are a prefix of start(id1),
   done(id1), ..., start(idn), done(idn), taken over the tasks up to the
   first plan element that is no object, and they are the whole of it once the
   loop has run to completion. A run that fails in a task (the executor call
   raises) has that task's task_start without its task_done, and no event of
   the later tasks. *)
C4_PairsArePrefix ==
    \A r \in Requests :
        IsList(plan[r]) =>
            /\ IsPrefix(TaskEvents(r), ExpectedPairs(DictPrefix(plan[r].v)))
            /\ LoopCompleted(r) =>
                   /\ AllDict(plan[r].v)
                   /\ TaskEvents(r) = ExpectedPairs(DictPrefix(plan[r].v))

\* A plan of two tasks, the second id first, both done.
C4_Witness ==
    /\ LoopCompleted("r1")
    /\ plan["r1"].v = <<task2, task1>>
    /\ pc["r1"] = "done"

----------------------------------------------------------------------------
(* C7: a failure that nothing catches before the outer except clause (the
   planner, executor, summary or verify call raises, or task.get is called on
   a plan element that is no object) gives exactly one error event, which is
   the last event; the generator is done, the failed call is the last call
   made, and after a failed task access neither an executor call for that
   element nor a summary or verify call is made. *)
C7_FailureHalts ==
    \A r \in Requests :
        /\ \A k \in LMRaised(r) :
               /\ k = Len(calls[r])
               /\ pc[r] = "done"
               /\ Positions(r, {"error"}) = {Len(events[r])}
               /\ Last(events[r]).content = <<Prose("APIError")>>
        /\ IsList(plan[r]) /\ idx[r] >= 1 /\ ~IsDict(plan[r].v[idx[r]]) =>
               /\ pc[r] = "done"
               /\ Positions(r, {"error"}) = {Len(events[r])}
               /\ Last(events[r]).content = <<Prose("AttributeError")>>
               /\ Len(SelectSeq(calls[r], LAMBDA c : c.stage = "executor")) = idx[r] - 1
               /\ \A k \in 1..Len(calls[r]) :
                      calls[r][k].stage \notin {"summary", "verify"}
                        /\ calls[r][k].out # "pending"

\* The verify call raised after a task was done.
C7_Witness ==
    /\ Positions("r1", {"task_done"}) # {}
    /\ \E k \in LMRaised("r1") : calls["r1"][k].stage = "verify"

----------------------------------------------------------------------------
(* C8: without a Language-Model client the stream of every request is exactly
   one error event with the not-configured content, and no stage runs: no
   status event, no Language-Model call, no tool call. *)
C8_NotConfigured ==
    \A r \in Requests :
        ~client /\ pc[r] # "absent" =>
            /\ calls[r] = <<>>
            /\ pc[r] \in {"start", "done"}
            /\ pc[r] = "start" => events[r] = <<>>
            /\ pc[r] = "done" =>
                   events[r] = <<[type |-> "error",
                                  content |-> <<Prose("API Key not configured")>>]>>

C8_Witness == ~client /\ pc["r1"] = "done"

----------------------------------------------------------------------------
(* C9, as claimed: after a planner output that parses to a list (of tasks), a
   plan event carries the parsed list and the task_start and task_done events
   enumerate exactly the ids of its tasks, in order, none skipped. *)
C9_AllIdsEnumerated ==
    \A r \in Requests :
        pc[r] = "done" /\ PlannerAnswered(r)
          /\ planner_content[r] \notin MalformedPlans
          /\ AllDict(Payload(planner_content[r]).v) =>
            /\ \E i \in Positions(r, {"plan"}) :
                   events[r][i].content = Payload(planner_content[r])
            /\ IdsOf(r, "task_start") = PlanIds(Payload(planner_content[r]).v)
            /\ IdsOf(r, "task_done") = PlanIds(Payload(planner_content[r]).v)

(* C9, amended: after a planner output that parses to a list, exactly one plan
   event is emitted and it carries the parsed list; the task_start events that
   follow carry the ids of a prefix of its elements, in order, the task_done
   events those of the task_start events but at most the last; and they
   enumerate all the ids, none skipped and none added, when the run ends with
   a message event. *)
C9_PlanThenIdsInOrder ==
    \A r \in Requests :
        PlannerAnswered(r) /\ planner_content[r] \notin MalformedPlans =>
            LET parsed == Payload(planner_content[r])
                starts == IdsOf(r, "task_start")
                dones == IdsOf(r, "task_done")
            IN  /\ Cardinality(Positions(r, {"plan"})) = 1
                /\ \A i \in Positions(r, {"plan"}) : events[r][i].content = parsed
                /\ IsPrefix(starts, PlanIds(DictPrefix(parsed.v)))
                /\ IsPrefix(dones, starts)
                /\ Len(starts) <= Len(dones) + 1
                /\ pc[r] = "done" /\ Last(events[r]).type = "message" =>
                       /\ AllDict(parsed.v)
                       /\ starts = PlanIds(DictPrefix(parsed.v))
                       /\ dones = starts

\* A fenced plan of one task, run to the message.
C9_Witness ==
    /\ planner_content["r1"] = <<FENCE, TAG, WS, Doc(Arr(<<task1>>)), WS, FENCE>>
    /\ pc["r1"] = "done"
    /\ Last(events["r1"]).type = "message"

----------------------------------------------------------------------------
(* C10: in every stream the planning status event comes before any plan
   event and a plan event before any task_start event; a stream without a
   plan event holds no task_start, log or task_done event. *)
C10_StatusPlanTaskOrder ==
    \A r \in Requests :
        \A i \in 1..Len(events[r]) :
            /\ events[r][i].type = "plan" =>
                   \E j \in 1..(i - 1) : events[r][j].type = "status"
            /\ events[r][i].type \in {"task_start", "log", "task_done"} =>
                   \E j \in 1..(i - 1) : events[r][j].type = "plan"

\* A stream with the log event of a tool call.
C10_Witness == Positions("r1", {"log"}) # {}

----------------------------------------------------------------------------
(* C5: while one request's pipeline is inside a blocking external call (a
   Language-Model completion, the search request), the pipeline of another
   request that has not finished can take its next step. *)
C5_BlockingCallStallsNobody ==
    \A r, s \in Requests :
        r # s /\ pc[r] \in BlockedPcs /\ pc[s] \notin {"done", "absent"} =>
            ENABLED Pipeline(s, SmallWorld)

----------------------------------------------------------------------------
\* The executor calls of r, in order: the j-th is the call for the j-th task.
ExecCalls(r) == SelectSeq(calls[r], LAMBDA c : c.stage = "executor")

\* The tasks of r whose executor output was no JSON.
UnparsedTasks(r) ==
    {j \in 1..Len(ExecCalls(r)) :
        ExecCalls(r)[j].out = "ok" /\ ExecCalls(r)[j].text \in UnparsableOutputs}

\* The entries of final_results that record a failed parse.
ParseErrors(r) ==
    {k \in 1..Len(final_results[r]) :
        /\ final_results[r][k].marker = "error"
        /\ final_results[r][k].body = <<Prose("JSONDecodeError")>>}

\* What C6 says of the outcome and the task_done of a task whose executor
\* output was no JSON.
ErrorRecorded(r, j) ==
    /\ \E k \in ParseErrors(r) :
           final_results[r][k].task_id = Get(plan[r].v[j], "id")
    /\ Len(IdsOf(r, "task_done")) >= j
    /\ IdsOf(r, "task_done")[j] = Get(plan[r].v[j], "id")

(* C6, as claimed: for every task whose executor output cannot be parsed, the
   task's outcome carries the error marker, its task_done is emitted, the
   Aggregator's input holds one entry for it, and the run ends with a message
   event, not an error event. *)
C6_ParseFailureThenMessage ==
    \A r \in Requests :
        /\ Cardinality(ParseErrors(r)) = Cardinality(UnparsedTasks(r))
        /\ \A j \in UnparsedTasks(r) :
               /\ ErrorRecorded(r, j)
               /\ pc[r] = "done" => Last(events[r]).type = "message"

(* C6, amended: for every task whose executor output cannot be parsed, the
   task's outcome carries the error marker, its task_done is emitted, the loop
   goes on to the next plan element (or, after the last, to the Aggregator,
   whose input holds one entry for the task), and the run ends with a message
   event exactly when nothing else fails: no Language-Model call raises and
   every plan element is an object. *)
C6_ParseFailureIsolated ==
    \A r \in Requests :
        /\ Cardinality(ParseErrors(r)) = Cardinality(UnparsedTasks(r))
        /\ \A j \in UnparsedTasks(r) :
               /\ ErrorRecorded(r, j)
               /\ pc[r] = "done" =>
                      /\ IF j < Len(plan[r].v) THEN idx[r] > j ELSE LoopCompleted(r)
                      /\ Last(events[r]).type = "message"
                           <=> (LMRaised(r) = {} /\ AllDict(plan[r].v))

\* Two tasks, the second one's executor output is prose, the run ends with the
\* message.
C6_Witness ==
    /\ pc["r1"] = "done"
    /\ Len(plan["r1"].v) = 2
    /\ UnparsedTasks("r1") = {2}
    /\ Len(final_results["r1"]) = 2
    /\ Last(events["r1"]).type = "message"

----------------------------------------------------------------------------
\* The positions in calls of the calls of a stage.
CallsOf(r, stage) == {k \in 1..Len(calls[r]) : calls[r][k].stage = stage}

\* The events whose content is a text (a plan event carries a JSON value).
TextEvents(r) == Positions(r, {"status", "log", "message", "error"})

(* C11, as claimed: whenever the task loop has completed, a finished run has
   called the Aggregator exactly once and then the Verifier exactly once, the
   content of its terminal message event is the Verifier's output, and no
   event carries the Aggregator's draft. *)
C11_BothCalledOnce ==
    \A r \in Requests :
        LoopCompleted(r) /\ pc[r] = "done" =>
            /\ Cardinality(CallsOf(r, "summary")) = 1
            /\ Cardinality(CallsOf(r, "verify")) = 1
            /\ \A s \in CallsOf(r, "summary") : CallsOf(r, "verify") = {s + 1}
            /\ Last(events[r]).type = "message" =>
                   Last(events[r]).content = Last(calls[r]).text
            /\ \A i \in TextEvents(r) : events[r][i].content # final_answer[r]

(* C11, amended: whenever the task loop has completed (also for an empty plan
   and when every outcome is an error), the Aggregator is called exactly once;
   the Verifier is called exactly once, right after it, when the Aggregator
   call returns, and not at all when it raises. A run in which both return
   ends with the message event, whose content is the Verifier's output; a run
   in which one of them raises ends with the error event. The draft is the
   content of an event only when the Verifier's output is the same text. *)
C11_AggregatorThenVerifier ==
    \A r \in Requests :
        LoopCompleted(r) =>
            /\ Cardinality(CallsOf(r, "summary")) = 1
            /\ \A s \in CallsOf(r, "summary") :
                   /\ CallsOf(r, "verify") =
                          IF calls[r][s].out = "ok" THEN {s + 1} ELSE {}
                   /\ calls[r][s].out = "ok" => final_answer[r] = calls[r][s].text
            /\ CallsOf(r, "verify") \subseteq {Len(calls[r])}
            /\ pc[r] = "done" =>
                   IF Last(calls[r]).out = "ok"
                     THEN /\ Last(calls[r]).stage = "verify"
                          /\ Last(events[r]) = MessageEvent(Last(calls[r]).text)
                     ELSE Last(events[r]) = ErrorEvent("APIError")
            /\ \A i \in TextEvents(r) :
                   events[r][i].content = final_answer[r] =>
                       /\ i = Len(events[r])
                       /\ events[r][i].type = "message"
                       /\ Last(calls[r]) = Call("verify", "ok", final_answer[r])

\* An empty plan, run to the message with the verify model's text.
C11_Witness ==
    /\ plan["r1"] = Arr(<<>>)
    /\ pc["r1"] = "done"
    /\ final_answer["r1"] = <<Prose("draft")>>
    /\ Last(events["r1"]) = MessageEvent(<<Prose("verified")>>)

----------------------------------------------------------------------------
(* C12: execute_tool never raises: whatever the tool name, the arguments
   (missing, null, no object) and the backend's answer (time-out, transport
   error, non-success status, a body that is no JSON object), every call of
   it ends with a text result. *)
C12_ToolNeverRaises ==
    \A r \in Requests :
        \A k \in CallsOf(r, "tool") : calls[r][k].out # "raised"

----------------------------------------------------------------------------
(* The task that has just been settled: pc is at the yield of task_done *)

\* The executor's output for the task resolved to a tool call.
ResolvesToTool(r) == action_kind(exec_content[r]) = "tool_call"

\* The tool name and the arguments that output carries.
ParsedToolName(r) == Get(parse_action(exec_content[r]), "tool_name")
ParsedArguments(r) == Get(parse_action(exec_content[r]), "arguments")

\* The names of TOOLS.
KnownTool(name) == name = Str("web_search")

\* The last two calls are the task's executor call and one tool call.
OneToolCall(r) ==
    /\ Len(calls[r]) >= 2
    /\ calls[r][Len(calls[r]) - 1] = Call("executor", "ok", exec_content[r])
    /\ Last(calls[r]).stage = "tool"
    /\ Last(calls[r]).out # "pending"

(* C13: for every task whose executor output resolves to a tool call on a
   known tool, execute_tool is called exactly once, with the tool name and the
   arguments parsed from that output, and the text it returns is, verbatim,
   the body of the task's entry in final_results. *)
C13_KnownToolInvokedOnce ==
    \A r \in Requests :
        /\ Cardinality(CallsOf(r, "tool")) <= Cardinality(CallsOf(r, "executor"))
        /\ pc[r] = "at_task_done" /\ ResolvesToTool(r) /\ KnownTool(ParsedToolName(r)) =>
               /\ OneToolCall(r)
               /\ \E backend \in BackendResponses :
                      Last(calls[r]) =
                          Ended(Call("tool", "pending", <<>>),
                                execute_tool(ParsedToolName(r), ParsedArguments(r),
                                             serper_api_key, backend))
               /\ Last(calls[r]).out = "ok" =>
                      Last(final_results[r]) =
                          result_entry(task_id(r), Last(calls[r]).text)

\* A fenced tool call on web_search, answered by the mock results for its query.
C13_Witness ==
    /\ pc["r1"] = "at_task_done"
    /\ exec_content["r1"] = <<FENCE, TAG, WS, Doc(search_action), WS, FENCE>>
    /\ Last(final_results["r1"]).body = mock_results(Str("Paris"))

----------------------------------------------------------------------------
(* C14: for every task whose executor output resolves to a tool call naming a
   tool that is not registered, whatever its arguments, execute_tool returns
   the fixed text Unknown tool, the task's entry in final_results is a result
   entry (not an error entry) with that text, and task_done is emitted. *)
C14_UnknownToolSentinel ==
    \A r \in Requests :
        pc[r] = "at_task_done" /\ ResolvesToTool(r) /\ ~KnownTool(ParsedToolName(r)) =>
            /\ OneToolCall(r)
            /\ Last(calls[r]) = Call("tool", "ok", <<Prose("Unknown tool")>>)
            /\ Last(final_results[r]) =
                   [task_id |-> task_id(r), marker |-> "result",
                    body |-> <<Prose("Unknown tool")>>]
            /\ Last(events[r]) = [type |-> "task_done", id |-> task_id(r)]

\* The calculator, called with arguments and without, in two tasks.
C14_Witness ==
    /\ pc["r1"] = "at_task_done"
    /\ idx["r1"] = 2
    /\ exec_content["r1"] = <<Doc(calculator_args_action)>>
    /\ calls["r1"][2].text = <<Doc(calculator_action)>>

----------------------------------------------------------------------------
(* C15: when the planner's output is no JSON or is JSON that is no list (an
   object, a number, a string, null), the run ends with the message event that
   carries the raw output and nothing else is run: the planner call is the
   only call of the request, and no executor, tool, summary or verify call is
   made; no error event is emitted. *)
C15_PlannerCallOnly ==
    \A r \in Requests :
        PlannerAnswered(r) /\ planner_content[r] \in MalformedPlans =>
            /\ calls[r] = <<Call("planner", "ok", planner_content[r])>>
            /\ pc[r] = "done"
            /\ Last(events[r]) = MessageEvent(planner_content[r])
            /\ Positions(r, {"error"}) = {}

\* The planner answered with a number.
C15_Witness ==
    /\ PlannerAnswered("r1")
    /\ planner_content["r1"] = <<Doc(Num("42"))>>
    /\ pc["r1"] = "done"

----------------------------------------------------------------------------
(* C16: determinism. Two runs in the same process that have received the same
   answers from the Language-Model and the tools, and stand at the same point,
   have emitted the same events and hold the same plan and outcomes; two
   finished runs with the same answers have the same event sequence and the
   same terminal content. *)
C16_Deterministic ==
    \A r, s \in Requests :
        pc[r] = pc[s] /\ pc[r] # "absent" /\ calls[r] = calls[s] =>
            /\ events[r] = events[s]
            /\ plan[r] = plan[s]
            /\ final_results[r] = final_results[s]

\* Two full runs over the same two-task plan with the same answers, one of
\* them a tool call.
C16_Witness ==
    /\ pc["r1"] = "done" /\ pc["r2"] = "done"
    /\ calls["r1"] = calls["r2"]
    /\ Len(plan["r1"].v) = 2
    /\ CallsOf("r1", "tool") # {}
    /\ Last(events["r1"]).type = "message"

----------------------------------------------------------------------------
\* The calls to the Language-Model, in the order they were made.
LMCalls(r) == SelectSeq(calls[r], LAMBDA c : c.stage # "tool")
StagesOf(s) == [k \in 1..Len(s) |-> s[k].stage]

\* planner, n times executor, summary, verify
Chain(n) ==
    <<"planner">> \o [i \in 1..n |-> "executor"] \o <<"summary", "verify">>

(* C17: the external calls of a run form one chain: the planner call, then for
   each task in plan order one executor call, made after the task's task_start
   and after the task_done of the task before it, then the summary call, then
   the verify call; a tool call follows the executor call that asked for it. A
   call is made only when the call before it has ended, so at most one call is
   in flight; a run over a plan of n tasks that ends with the verified message
   has made n + 3 calls to the Language-Model. *)
C17_SequentialChain ==
    \A r \in Requests :
        /\ \A k \in 1..Len(calls[r]) :
               /\ calls[r][k].out = "pending" => k = Len(calls[r]) /\ pc[r] \in BlockedPcs
               /\ calls[r][k].stage = "tool" =>
                      /\ k > 1
                      /\ calls[r][k - 1].stage = "executor"
                      /\ calls[r][k - 1].out = "ok"
                      /\ action_kind(calls[r][k - 1].text) = "tool_call"
        /\ pc[r] \in BlockedPcs => calls[r] # <<>> /\ Last(calls[r]).out = "pending"
        /\ IsPrefix(StagesOf(LMCalls(r)),
                    IF IsList(plan[r]) THEN Chain(Len(plan[r].v)) ELSE <<"planner">>)
        /\ Cardinality(CallsOf(r, "executor")) <= Cardinality(Positions(r, {"task_start"}))
        /\ Cardinality(CallsOf(r, "executor")) <= Cardinality(Positions(r, {"task_done"})) + 1
        /\ Cardinality(Positions(r, {"task_done"})) <= Cardinality(CallsOf(r, "executor"))
        /\ pc[r] = "done" /\ IsList(plan[r]) /\ Last(events[r]).type = "message" =>
               Len(LMCalls(r)) = Len(plan[r].v) + 3

\* A full run over two tasks, one of them with a tool call.
C17_Witness ==
    /\ pc["r1"] = "done"
    /\ Last(events["r1"]).type = "message"
    /\ StagesOf(calls["r1"]) =
           <<"planner", "executor", "tool", "executor", "summary", "verify">>

----------------------------------------------------------------------------
(* What web_search is to return for an answer of the backend *)

\* The answer is one the search API documents: a time-out, a failure, or an
\* object whose organic results are objects and whose knowledge graph, when
\* there is one, is an object with something in it.
Documented(backend) ==
    \/ backend.net \in {"timeout", "error"}
    \/ /\ IsDict(backend.data)
       /\ IsList(GetOr(backend.data, "organic", Arr(<<>>)))
       /\ AllDict(GetOr(backend.data, "organic", Arr(<<>>)).v)
       /\ "knowledgeGraph" \in DOMAIN backend.data.v =>
              /\ IsDict(backend.data.v["knowledgeGraph"])
              /\ DOMAIN backend.data.v["knowledgeGraph"].v # {}

\* The organic results when there is one, else the knowledge graph when there
\* is one, else the no-results text; a text that says so for a time-out or a
\* failure.
Selected(backend) ==
    CASE backend.net = "timeout" -> <<Prose("search timed out")>>
      [] backend.net = "error" -> <<Prose("Serper search failed"), Prose("RequestException")>>
      [] OTHER ->
           LET organic == GetOr(backend.data, "organic", Arr(<<>>)).v
               shown == Take(organic, 5)
           IN  IF organic # <<>>
                 THEN join([i \in 1..Len(shown) |-> format_item(shown[i])])
               ELSE IF "knowledgeGraph" \in DOMAIN backend.data.v
                 THEN format_kg(backend.data.v["knowledgeGraph"])
               ELSE <<Prose("no results found")>>

\* The tool call at hand is a web_search with arguments that are an object.
SearchAtHand(r) == tool_name(r) = Str("web_search") /\ IsDict(args(r))

C18_Step ==
    \A r \in Requests :
        /\ ToolInvoke(r) /\ SearchAtHand(r) /\ ~key_configured(serper_api_key) =>
               /\ pc'[r] = "at_task_done"
               /\ Last(calls'[r]) =
                      Call("tool", "ok",
                           <<Prose("simulated search results"),
                             Prose(PyStr(GetOr(args(r), "query", Str(""))))>>)
               /\ Last(final_results'[r]).body = Last(calls'[r]).text
        /\ ToolInvoke(r) /\ pc'[r] = "tool_post" =>
               SearchAtHand(r) /\ key_configured(serper_api_key)
        /\ \A backend \in BackendResponses :
               ToolReturn(r, backend) /\ Documented(backend) =>
                   /\ Last(calls'[r]) = Call("tool", "ok", Selected(backend))
                   /\ Last(final_results'[r]).body = Selected(backend)

(* C18: web_search. Without a search credential execute_tool does not post the
   search request and returns the simulated results, which embed the query.
   With a credential it posts the request and returns the formatted organic
   results when the answer has at least one, else the knowledge-graph summary
   when the answer has one, else the fixed no-results text; when the request
   times out or fails it returns a text that says so. *)
C18_SearchResultSelection == [][C18_Step]_vars

\* The search found no organic result and the knowledge graph was returned.
C18_Witness ==
    /\ pc["r1"] = "at_task_done"
    /\ Last(calls["r1"]) = Call("tool", "ok", format_kg(knowledge_graph))
    /\ Last(final_results["r1"]).body = format_kg(knowledge_graph)

----------------------------------------------------------------------------
\* The exception the task's try block caught, "none" when it caught none.
CaughtInTask(r) ==
    IF action_kind(exec_content[r]) \in {"JSONDecodeError", "AttributeError"}
      THEN action_kind(exec_content[r])
    ELSE IF ResolvesToTool(r) /\ Last(calls[r]).stage = "tool"
              /\ Last(calls[r]).out = "raised"
      THEN "raised in execute_tool"
    ELSE "none"

(* C19: an exception raised while a task's action is resolved or its tool is
   called (an output that is no JSON or no object, a tool call without
   arguments, an answer of the backend that is no object) stays in the task:
   it is recorded as the task's error entry, task_done is emitted, no error
   event is emitted and the loop goes on. An error event is emitted, and the
   run ended, only when a call to the Language-Model raises (or a plan element
   is no object). *)
C19_TaskFailureConfined ==
    \A r \in Requests :
        /\ pc[r] = "at_task_done" /\ CaughtInTask(r) # "none" =>
               /\ Last(final_results[r]).task_id = task_id(r)
               /\ Last(final_results[r]).marker = "error"
               /\ Last(final_results[r]).body \in
                      {<<Prose("JSONDecodeError")>>, <<Prose("AttributeError")>>}
               /\ CaughtInTask(r) \in {"JSONDecodeError", "AttributeError"} =>
                      Last(final_results[r]).body = <<Prose(CaughtInTask(r))>>
               /\ Last(events[r]) = [type |-> "task_done", id |-> task_id(r)]
               /\ Positions(r, {"error"}) = {}
        /\ pc[r] = "at_task_done" => ENABLED Sleep(r)
        /\ pc[r] = "sleeping" => ENABLED LoopHead(r)
        /\ client /\ Positions(r, {"error"}) # {} =>
               \/ LMRaised(r) # {}
               \/ IsList(plan[r]) /\ idx[r] >= 1 /\ ~IsDict(plan[r].v[idx[r]])

\* Two failed tasks: an output that is a list, then a tool call without
\* arguments.
C19_Witness ==
    /\ pc["r1"] = "at_task_done"
    /\ idx["r1"] = 2
    /\ exec_content["r1"] = <<Doc(bare_search_action)>>
    /\ Last(calls["r1"]) = Call("tool", "raised", <<>>)
    /\ final_results["r1"][1].marker = "error"
    /\ calls["r1"][2].text = <<Doc(Arr(<<>>))>>

----------------------------------------------------------------------------
(* C20: when the planner's output parses to a list with an element that is no
   object, the plan event is emitted with that list; the tasks before the
   first such element have their task_start and task_done pairs; a run that
   reaches the element ends there with an error event, without a task_start or
   a task_done for it and without a summary or a verify call. *)
C20_NonObjectElement ==
    \A r \in Requests :
        IsList(plan[r]) /\ ~AllDict(plan[r].v) =>
            LET ahead == DictPrefix(plan[r].v)
            IN  /\ \E i \in Positions(r, {"plan"}) : events[r][i].content = plan[r]
                /\ CallsOf(r, "summary") \cup CallsOf(r, "verify") = {}
                /\ Len(ExecCalls(r)) <= Len(ahead)
                /\ idx[r] <= Len(ahead) + 1
                /\ idx[r] = Len(ahead) + 1 =>
                       /\ pc[r] = "done"
                       /\ LMRaised(r) = {}
                       /\ Last(events[r]) = ErrorEvent("AttributeError")
                       /\ TaskEvents(r) = ExpectedPairs(ahead)
                /\ pc[r] = "done" /\ LMRaised(r) = {} => idx[r] = Len(ahead) + 1

\* A task, then a string: the task is done and the run ends at the string.
C20_Witness ==
    /\ plan["r1"] = Arr(<<task1, Str("search the web")>>)
    /\ pc["r1"] = "done"
    /\ idx["r1"] = 2
    /\ Last(events["r1"]).type = "error"

====
